---- MODULE Spec2Model ----
(***************************************************************************)
(* Model of app/zim_xfa.py (XFA datasets indexing, field mapping, analyze  *)
(* and fill) and of the two HTTP handlers of app/main.py that call it.     *)
(*                                                                         *)
(* Strings are TLA+ strings handled character by character (Len, SubSeq,   *)
(* \o).  An optional value (Python None or a value) is a sequence of       *)
(* length 0 or 1.  An XML document is an arena: a sequence of nodes, node  *)
(* 1 the document element, every other node naming its parent, siblings    *)
(* in document order by index.  Node 0 stands for None.  A value the code  *)
(* computes once and reads several times is passed on as an operator       *)
(* argument.  The messages of exceptions and responses are written in      *)
(* ASCII (ae for a-umlaut, ue for u-umlaut), and the names and texts of    *)
(* the inputs are ASCII.                                                   *)
(***************************************************************************)
EXTENDS Integers, Sequences, FiniteSets, TLC

None == << >>
Some(v) == << v >>
IsNone(o) == o = << >>
Get(o) == o[1]

-----------------------------------------------------------------------------
(* Python str primitives *)

CharAt(s, i) == SubSeq(s, i, i)

\* position of the first occurrence of the one-character string c in s, 0 if none
RECURSIVE IndexFrom(_, _, _)
IndexFrom(s, c, i) ==
    IF i > Len(s) THEN 0
    ELSE IF CharAt(s, i) = c THEN i
    ELSE IndexFrom(s, c, i + 1)

IndexOf(s, c) == IndexFrom(s, c, 1)

\* `term in text`
Contains(text, term) ==
    \E i \in 1..(Len(text) - Len(term) + 1) :
        SubSeq(text, i, i + Len(term) - 1) = term

UpperChars == "ABCDEFGHIJKLMNOPQRSTUVWXYZ"
LowerChars == "abcdefghijklmnopqrstuvwxyz"
Digits == "0123456789"
Whitespace == {" ", "\t", "\n"}

IsDigit(c) == IndexOf(Digits, c) > 0
DigitVal(c) == IndexOf(Digits, c) - 1

\* the lower-case letter of each upper-case letter
ToLower == [c \in { CharAt(UpperChars, k) : k \in 1..Len(UpperChars) } |->
               CharAt(LowerChars, IndexOf(UpperChars, c))]

LowerChar(c) == IF c \in DOMAIN ToLower THEN ToLower[c] ELSE c

\* str.lower()
RECURSIVE Lower(_)
Lower(s) == IF s = "" THEN "" ELSE LowerChar(Head(s)) \o Lower(Tail(s))

\* str.casefold(): lower-casing, and the sharp s folds to "ss"
RECURSIVE Casefold(_)
Casefold(s) ==
    IF s = "" THEN ""
    ELSE (IF Head(s) = "ß" THEN "ss" ELSE LowerChar(Head(s))) \o Casefold(Tail(s))

RECURSIVE LStrip(_)
LStrip(s) == IF s # "" /\ Head(s) \in Whitespace THEN LStrip(Tail(s)) ELSE s

RECURSIVE RStrip(_)
RStrip(s) ==
    IF s # "" /\ CharAt(s, Len(s)) \in Whitespace
    THEN RStrip(SubSeq(s, 1, Len(s) - 1))
    ELSE s

\* str.strip()
Strip(s) == RStrip(LStrip(s))

\* str.split(sep) for a one-character separator: the list of pieces
RECURSIVE Split(_, _)
Split(s, sep) ==
    LET k == IndexOf(s, sep)
    IN  IF k = 0 THEN << s >>
        ELSE << SubSeq(s, 1, k - 1) >> \o Split(SubSeq(s, k + 1, Len(s)), sep)

\* [x for x in seq if x] : drop the empty strings
RECURSIVE NonEmpty(_)
NonEmpty(seq) ==
    IF seq = << >> THEN << >>
    ELSE (IF Head(seq) = "" THEN << >> ELSE << Head(seq) >>) \o NonEmpty(Tail(seq))

RECURSIVE AllDigits(_)
AllDigits(s) == s = "" \/ (IsDigit(Head(s)) /\ AllDigits(Tail(s)))

\* int(s) for a string of decimal digits
RECURSIVE ParseInt(_)
ParseInt(s) ==
    IF s = "" THEN 0
    ELSE ParseInt(SubSeq(s, 1, Len(s) - 1)) * 10 + DigitVal(CharAt(s, Len(s)))

-----------------------------------------------------------------------------
(* lxml element tree *)

\* an element: elem = TRUE, tag a string; a comment: elem = FALSE
Elem(tag, parent, text) == [elem |-> TRUE, tag |-> tag, parent |-> parent, text |-> text]
Comment(parent) == [elem |-> FALSE, tag |-> "", parent |-> parent, text |-> None]

\* list(node): the children of n in document order
RECURSIVE ChildrenFrom(_, _, _)
ChildrenFrom(xml, n, i) ==
    IF i > Len(xml) THEN << >>
    ELSE (IF xml[i].parent = n THEN << i >> ELSE << >>) \o ChildrenFrom(xml, n, i + 1)

Children(xml, n) == ChildrenFrom(xml, n, 1)

\* [c for c in node if isinstance(c.tag, str)]
ElemChildren(xml, n) ==
    LET IsElem(c) == xml[c].elem IN SelectSeq(Children(xml, n), IsElem)

local_name(tag) ==
    LET k == IndexOf(tag, "}")
    IN  IF k > 0 THEN SubSeq(tag, k + 1, Len(tag)) ELSE tag

\* list.index(x): one-based position of the first element equal to x, 0 if none
RECURSIVE ListIndexFrom(_, _, _)
ListIndexFrom(seq, x, i) ==
    IF i > Len(seq) THEN 0
    ELSE IF seq[i] = x THEN i
    ELSE ListIndexFrom(seq, x, i + 1)

\* only the name, as a wrong implementation would have it
SegmentNameNoIndex(xml, element, siblings) == local_name(xml[element].tag)

_segment_name(xml, element, siblings) ==
    LET name == local_name(xml[element].tag)
        SameName(s) == local_name(xml[s].tag) = name
        same == SelectSeq(siblings, SameName)
    IN  IF Len(same) <= 1 THEN name
        ELSE name \o "[" \o ToString(ListIndexFrom(same, element, 1) - 1) \o "]"

RECURSIVE _leaf_paths(_, _, _)
RECURSIVE LeafPathsOver(_, _, _, _)
\* the loop of _leaf_paths over children[k..]
LeafPathsOver(xml, children, k, prefix) ==
    IF k > Len(children) THEN << >>
    ELSE LET child == children[k]
             seg == _segment_name(xml, child, children)
             child_path == IF prefix # "" THEN prefix \o "/" \o seg ELSE seg
         IN  _leaf_paths(xml, child, child_path)
                 \o LeafPathsOver(xml, children, k + 1, prefix)

_leaf_paths(xml, node, prefix) ==
    LET children == ElemChildren(xml, node)
    IN  IF children = << >> THEN << prefix >>
        ELSE LeafPathsOver(xml, children, 1, prefix)

\* the position of the "[" of a trailing "[digits]", 0 if the regular
\* expression ^(.+?)\[(\d+)\]$ does not match
BracketPos(segment) ==
    LET n == Len(segment)
        Opens == { k \in 2..(n - 2) :
                     /\ CharAt(segment, k) = "["
                     /\ AllDigits(SubSeq(segment, k + 1, n - 1)) }
    IN  IF n >= 4 /\ CharAt(segment, n) = "]" /\ Opens # {}
        THEN CHOOSE k \in Opens : TRUE
        ELSE 0

_split_segment(segment) ==
    LET k == BracketPos(segment)
    IN  IF k = 0 THEN [name |-> segment, index |-> None]
        ELSE [name |-> SubSeq(segment, 1, k - 1),
              index |-> Some(ParseInt(SubSeq(segment, k + 1, Len(segment) - 1)))]

\* a bare name resolves to the last same-named child, as a wrong implementation would
RECURSIVE FindNodeLastFrom(_, _, _)
FindNodeLastFrom(xml, current, segments) ==
    IF segments = << >> THEN current
    ELSE LET sp == _split_segment(Head(segments))
             Named(c) == local_name(xml[c].tag) = sp.name
             candidates == SelectSeq(ElemChildren(xml, current), Named)
         IN  IF candidates = << >> THEN 0
             ELSE IF IsNone(sp.index)
                  THEN FindNodeLastFrom(xml, candidates[Len(candidates)], Tail(segments))
             ELSE IF Get(sp.index) < Len(candidates)
                  THEN FindNodeLastFrom(xml, candidates[Get(sp.index) + 1], Tail(segments))
             ELSE 0

\* the loop of find_node over the remaining segments; 0 is None
RECURSIVE FindNodeFrom(_, _, _)
FindNodeFrom(xml, current, segments) ==
    IF segments = << >> THEN current
    ELSE LET sp == _split_segment(Head(segments))
             Named(c) == local_name(xml[c].tag) = sp.name
             candidates == SelectSeq(ElemChildren(xml, current), Named)
         IN  IF candidates = << >> THEN 0
             ELSE IF IsNone(sp.index)
                  THEN FindNodeFrom(xml, candidates[1], Tail(segments))
             ELSE IF Get(sp.index) < Len(candidates)
                  THEN FindNodeFrom(xml, candidates[Get(sp.index) + 1], Tail(segments))
             ELSE 0

find_node(xml, data_root, path) ==
    LET segments == NonEmpty(Split(path, "/"))
    IN  IF segments = << >> THEN 0
        ELSE IF local_name(xml[data_root].tag) # _split_segment(segments[1]).name THEN 0
        ELSE FindNodeFrom(xml, data_root, Tail(segments))

\* the text of get_node_text for the node found
NodeText(xml, node) ==
    IF node = 0 \/ IsNone(xml[node].text) THEN ""
    ELSE Strip(Get(xml[node].text))

get_node_text(xml, data_root, path) == NodeText(xml, find_node(xml, data_root, path))

-----------------------------------------------------------------------------
(* JSON values of the payload.  A value is null (also: the key is absent),  *)
(* a string, or a number; a number is held in hundredths, so 1234.5 is      *)
(* Num(123450).  A numeric payload field holds whatever the JSON document   *)
(* holds there: a number, a string, or nothing.                             *)

JNull == [t |-> "null", s |-> "", n |-> 0]
JStr(s) == [t |-> "str", s |-> s, n |-> 0]
JNum(n) == [t |-> "num", s |-> "", n |-> n]

Abs(n) == IF n < 0 THEN 0 - n ELSE n

\* two decimal digits
Pad2(n) == IF n < 10 THEN "0" \o ToString(n) ELSE ToString(n)
Pad3(n) == IF n < 10 THEN "00" \o ToString(n) ELSE IF n < 100 THEN "0" \o ToString(n) ELSE ToString(n)

\* str(number): a whole number prints as an int, else as the shortest decimal
PyStrNum(n) ==
    LET a == Abs(n)
        sign == IF n < 0 THEN "-" ELSE ""
        frac == a % 100
    IN  IF frac = 0 THEN sign \o ToString(a \div 100)
        ELSE sign \o ToString(a \div 100) \o "."
                  \o (IF frac % 10 = 0 THEN ToString(frac \div 10) ELSE Pad2(frac))

\* Python truthiness of a JSON value
Truthy(v) ==
    CASE v.t = "null" -> FALSE
      [] v.t = "str" -> v.s # ""
      [] v.t = "num" -> v.n # 0

\* str(value or "")
PyStrOrEmpty(v) ==
    IF ~Truthy(v) THEN ""
    ELSE IF v.t = "str" THEN v.s
    ELSE PyStrNum(v.n)

normalize_text(v) == Strip(PyStrOrEmpty(v))

\* float of a stripped text t whose digits, the sign left out, are split at
\* the "." into parts: [ok, n], n the number in hundredths, read from two
\* fractional digits at most
ParseParts(t, parts) ==
    IF ~(/\ Len(parts) <= 2
         /\ \A i \in 1..Len(parts) : AllDigits(parts[i])
         /\ \E i \in 1..Len(parts) : parts[i] # "")
    THEN [ok |-> FALSE, n |-> 0]
    ELSE [ok |-> TRUE,
          n |-> (IF Head(t) = "-" THEN -1 ELSE 1)
                  * (ParseInt(parts[1]) * 100
                       + (IF Len(parts) = 2 THEN ParseInt(SubSeq(parts[2] \o "00", 1, 2))
                          ELSE 0))]

\* float(text) for a text that is not empty: ok whether the text is a plain
\* decimal: blanks around an optional sign, digits, and an optional "." with
\* digits, one digit at least
ParseFloat(text) ==
    ParseParts(Strip(text),
               Split(IF Strip(text) # "" /\ Head(Strip(text)) \in {"+", "-"}
                     THEN Tail(Strip(text)) ELSE Strip(text), "."))

\* the exception of float(value or 0), "" for none: ValueError for a string
\* that is not empty and is no number
FloatError(v) ==
    IF v.t = "str" /\ v.s # "" /\ ~ParseFloat(v.s).ok
    THEN "ValueError: could not convert string to float: '" \o v.s \o "'"
    ELSE ""

\* float(value or 0), in hundredths; where float raises, FloatError holds
\* the exception and the number is not used
FloatOrZero(v) ==
    IF ~Truthy(v) THEN 0
    ELSE IF v.t = "str" THEN ParseFloat(v.s).n
    ELSE v.n

\* str.replace(a, b) for one-character a
RECURSIVE Replace(_, _, _)
Replace(s, a, b) ==
    IF s = "" THEN ""
    ELSE (IF Head(s) = a THEN b ELSE Head(s)) \o Replace(Tail(s), a, b)

\* the integer part with "," every three digits
RECURSIVE Group3(_)
Group3(n) ==
    IF n < 1000 THEN ToString(n)
    ELSE Group3(n \div 1000) \o "," \o Pad3(n % 1000)

\* f"{number:,.2f}" for a number in hundredths
FormatComma2f(c) ==
    (IF c < 0 THEN "-" ELSE "") \o Group3(Abs(c) \div 100) \o "." \o Pad2(Abs(c) % 100)

format_euro(v) ==
    Replace(Replace(Replace(FormatComma2f(FloatOrZero(v)), ",", "_"), ".", ","), "_", ".")

\* f"{number:.1f}" for a number in hundredths: rounded to the nearest tenth,
\* a tie to the even tenth
Format1f(c) ==
    LET a == Abs(c)
        low == a \div 10
        rem == a % 10
        t == IF rem > 5 \/ (rem = 5 /\ low % 2 = 1) THEN low + 1 ELSE low
    IN  (IF c < 0 THEN "-" ELSE "") \o ToString(t \div 10) \o "." \o ToString(t % 10)

format_percent(v, with_symbol) ==
    LET base == Replace(Format1f(FloatOrZero(v)), ".", ",")
    IN  IF with_symbol THEN base \o " %" ELSE base

IsLeap(y) == (y % 4 = 0 /\ y % 100 # 0) \/ y % 400 = 0

DaysInMonth(y, m) ==
    IF m = 2 THEN (IF IsLeap(y) THEN 29 ELSE 28)
    ELSE IF m \in {4, 6, 9, 11} THEN 30 ELSE 31

\* the date of three fields of digits, None when they name no date
DateOf(ys, ms, ds) ==
    IF /\ Len(ys) = 4 /\ AllDigits(ys)
       /\ Len(ms) \in {1, 2} /\ AllDigits(ms)
       /\ Len(ds) \in {1, 2} /\ AllDigits(ds)
       /\ ParseInt(ys) >= 1
       /\ ParseInt(ms) \in 1..12
       /\ ParseInt(ds) >= 1
       /\ ParseInt(ds) <= DaysInMonth(ParseInt(ys), ParseInt(ms))
    THEN Some([y |-> ParseInt(ys), m |-> ParseInt(ms), d |-> ParseInt(ds)])
    ELSE None

\* datetime.strptime for the three formats of parse_date: parts are the
\* fields of the text between the separators, yi, mi, di the positions of
\* year, month and day; None when the text does not match
Strptime(parts, yi, mi, di) ==
    IF Len(parts) # 3 THEN None ELSE DateOf(parts[yi], parts[mi], parts[di])

\* the first of the three formats that parses
FirstDate(iso, dot, slash) ==
    IF ~IsNone(iso) THEN iso ELSE IF ~IsNone(dot) THEN dot ELSE slash

ParseText(text) ==
    IF text = "" THEN None
    ELSE FirstDate(Strptime(Split(text, "-"), 1, 2, 3),
                   Strptime(Split(text, "."), 3, 2, 1),
                   Strptime(Split(text, "/"), 1, 2, 3))

parse_date(v) == ParseText(normalize_text(v))

\* strftime("%d.%m.%Y") of a parsed date, else the normalized input
RenderDate(dt, v) ==
    IF ~IsNone(dt)
    THEN Pad2(Get(dt).d) \o "." \o Pad2(Get(dt).m) \o "." \o ToString(Get(dt).y)
    ELSE normalize_text(v)

format_date(v) == RenderDate(parse_date(v), v)

RenderMonthYear(dt) ==
    IF ~IsNone(dt) THEN Pad2(Get(dt).m) \o "." \o ToString(Get(dt).y) ELSE ""

format_month_year(v) == RenderMonthYear(parse_date(v))

\* re.sub(r"[^a-zA-Z0-9._-]+", "_", text): every run of other characters
\* becomes one "_"
SlugAlphabet == UpperChars \o LowerChars \o Digits \o "._-"
SlugChars == { CharAt(SlugAlphabet, k) : k \in 1..Len(SlugAlphabet) }

RECURSIVE SubRuns(_, _)
SubRuns(s, inRun) ==
    IF s = "" THEN ""
    ELSE IF Head(s) \in SlugChars THEN Head(s) \o SubRuns(Tail(s), FALSE)
    ELSE (IF inRun THEN "" ELSE "_") \o SubRuns(Tail(s), TRUE)

RECURSIVE StripUnderscores(_)
StripUnderscores(s) ==
    IF s # "" /\ Head(s) = "_" THEN StripUnderscores(Tail(s))
    ELSE IF s # "" /\ CharAt(s, Len(s)) = "_" THEN StripUnderscores(SubSeq(s, 1, Len(s) - 1))
    ELSE s

\* NFKD decomposition with the combining marks dropped: an umlaut loses its dots
Unaccent(c) ==
    CASE c = "ä" -> "a" [] c = "ö" -> "o" [] c = "ü" -> "u"
      [] c = "Ä" -> "A" [] c = "Ö" -> "O" [] c = "Ü" -> "U"
      [] OTHER -> c

RECURSIVE AsciiText(_)
AsciiText(s) == IF s = "" THEN "" ELSE Unaccent(Head(s)) \o AsciiText(Tail(s))

slugify_ascii(value, fallback) ==
    LET raw == IF Strip(value) # "" THEN Strip(value) ELSE fallback
        cleaned == StripUnderscores(SubRuns(AsciiText(raw), FALSE))
    IN  IF cleaned # "" THEN cleaned ELSE fallback

-----------------------------------------------------------------------------
(* Field mapper.  A dict is the sequence of its items in insertion order.   *)

_contains_any(text, terms) == \E term \in terms : Contains(text, term)

\* the keyword test of each fixed category, on the lower-cased path
IsAcronymPath(low) == Contains(low, "akronym") \/ Contains(low, "projektname")
IsCompanyPath(low) == Contains(low, "firma") \/ Contains(low, "unternehmensname")
IsStartPath(low) == _contains_any(low, {"beginn", "start", "von"})
IsEndPath(low) == _contains_any(low, {"ende", "bis"})
IsDurationPath(low) == Contains(low, "dauer")
IsPersonnelCostPath(low) == Contains(low, "personalkosten")
IsProjectSumPath(low) == Contains(low, "projektsumme")
IsFundingSumPath(low) == Contains(low, "foerdersumme") \/ Contains(low, "fördersumme")
IsFundingRatePath(low) == Contains(low, "foerderquote") \/ Contains(low, "förderquote")
IsSurchargePath(low) ==
    Contains(low, "zuschlag") \/ Contains(low, "gemeinkosten") \/ Contains(low, "zuschlagsfaktor")
IsMaxProjectSumPath(low) ==
    /\ Contains(low, "max")
    /\ (Contains(low, "foerder") \/ Contains(low, "förder") \/ Contains(low, "projekt"))
    /\ (Contains(low, "summe") \/ Contains(low, "betrag"))
IsRealSurchargePath(low) == Contains(low, "real") /\ Contains(low, "zuschlag")
IsGiveawayPath(low) == Contains(low, "verschenkt") \/ Contains(low, "differenz")

WithSymbol(low) == Contains(low, "pct") \/ Contains(low, "prozent")

\* [source, value, error]: error the exception the branch raised, "" for none
NoRule == [source |-> "", value |-> "", error |-> ""]

\* the if/elif chain of build_field_value_map for one lower-cased path: the
\* source and the value of the branch taken, or the exception it raised
FixedChain(payload, low) ==
    LET project == payload.project
        company == payload.company
        funding == payload.company.funding
        computed == payload.company.computed
    IN  IF IsAcronymPath(low)
        THEN [source |-> "project.name", value |-> normalize_text(project.name), error |-> ""]
        ELSE IF IsCompanyPath(low)
        THEN [source |-> "company.name", value |-> normalize_text(company.name), error |-> ""]
        ELSE IF IsStartPath(low)
        THEN [source |-> "project.startDate", value |-> format_date(project.startDate),
              error |-> ""]
        ELSE IF IsEndPath(low)
        THEN [source |-> "project.endDate", value |-> format_date(project.endDate), error |-> ""]
        ELSE IF IsDurationPath(low)
        THEN [source |-> "project.durationMonths",
              value |-> normalize_text(project.durationMonths), error |-> ""]
        ELSE IF IsPersonnelCostPath(low)
        THEN [source |-> "company.computed.personnelCost",
              value |-> format_euro(computed.personnelCost),
              error |-> FloatError(computed.personnelCost)]
        ELSE IF IsProjectSumPath(low)
        THEN [source |-> "company.computed.projectSum",
              value |-> format_euro(computed.projectSum),
              error |-> FloatError(computed.projectSum)]
        ELSE IF IsFundingSumPath(low)
        THEN [source |-> "company.computed.fundingSum",
              value |-> format_euro(computed.fundingSum),
              error |-> FloatError(computed.fundingSum)]
        ELSE IF IsFundingRatePath(low)
        THEN [source |-> "company.funding.ratePct",
              value |-> format_percent(funding.ratePct, WithSymbol(low)),
              error |-> FloatError(funding.ratePct)]
        ELSE IF IsSurchargePath(low)
        THEN [source |-> "company.funding.surchargePct",
              value |-> format_percent(funding.surchargePct, WithSymbol(low)),
              error |-> FloatError(funding.surchargePct)]
        ELSE IF IsMaxProjectSumPath(low)
        THEN [source |-> "company.funding.maxProjectSum",
              value |-> format_euro(funding.maxProjectSum),
              error |-> FloatError(funding.maxProjectSum)]
        ELSE IF IsRealSurchargePath(low)
        THEN [source |-> "company.computed.realSurchargePct",
              value |-> format_percent(computed.realSurchargePct, WithSymbol(low)),
              error |-> FloatError(computed.realSurchargePct)]
        ELSE IF IsGiveawayPath(low)
        THEN [source |-> "company.computed.verschenkt",
              value |-> format_euro(computed.verschenkt),
              error |-> FloatError(computed.verschenkt)]
        ELSE NoRule

\* the company-name test ahead of the chain, as a wrong ordering would have it
FixedRuleCompanyFirst(payload, path) ==
    IF IsCompanyPath(Lower(path))
    THEN [source |-> "company.name", value |-> normalize_text(payload.company.name),
          error |-> ""]
    ELSE FixedChain(payload, Lower(path))

\* lines 225-257 for one path
FixedRule(payload, path) == FixedChain(payload, Lower(path))

\* `key in d`
DictHas(d, key) == \E i \in 1..Len(d) : d[i].path = key

\* d[key], for a key of d
DictGet(d, key) == d[CHOOSE i \in 1..Len(d) : d[i].path = key]

\* an item appended whether or not the key is there, as a wrong implementation
\* would have it
DictSetAppend(d, key, value, source) ==
    Append(d, [path |-> key, value |-> value, source |-> source])

\* d[key] = {"value": value, "source": source}
DictSet(d, key, value, source) ==
    LET item == [path |-> key, value |-> value, source |-> source]
    IN  IF DictHas(d, key)
        THEN [i \in 1..Len(d) |-> IF d[i].path = key THEN item ELSE d[i]]
        ELSE Append(d, item)

\* line 259: the entry is set when a rule matched and its value is not empty
FixedStep(value_map, path, rule) ==
    IF rule.source # "" /\ Strip(rule.value) # ""
    THEN DictSet(value_map, path, Strip(rule.value), rule.source)
    ELSE value_map

\* the first loop of build_field_value_map over the paths from the k-th on
RECURSIVE FixedPass(_, _, _, _)
FixedPass(payload, paths, k, value_map) ==
    IF k > Len(paths) THEN value_map
    ELSE FixedPass(payload, paths, k + 1,
                   FixedStep(value_map, paths[k], FixedRule(payload, paths[k])))

\* the exception that ends the first loop of build_field_value_map, looked for
\* from the k-th path on: that of the first path whose branch raises, "" for none
RECURSIVE FixedPassError(_, _, _)
FixedPassError(payload, paths, k) ==
    IF k > Len(paths) THEN ""
    ELSE IF FixedRule(payload, paths[k]).error # "" THEN FixedRule(payload, paths[k]).error
    ELSE FixedPassError(payload, paths, k + 1)

\* the candidates dict of the work package at zero-based position idx
WpCandidates(wp, idx) ==
    LET n1 == ToString(idx + 1)
    IN  << [key |-> "ap" \o n1 \o "_nr", val |-> normalize_text(wp.nr)],
           [key |-> "ap" \o n1 \o "_bezeichnung", val |-> normalize_text(wp.title)],
           [key |-> "ap" \o n1 \o "_pm", val |-> normalize_text(wp.pm)] >>

\* the innermost loop: the candidates from the j-th on, for one path
RECURSIVE WpKeys(_, _, _, _, _, _)
WpKeys(cands, idx, path, low, j, value_map) ==
    IF j > Len(cands) THEN value_map
    ELSE WpKeys(cands, idx, path, low, j + 1,
             IF Contains(low, cands[j].key) /\ cands[j].val # ""
             THEN DictSet(value_map, path, cands[j].val,
                          "workPackages[" \o ToString(idx) \o "]")
             ELSE value_map)

\* the loop over the paths from the k-th on, for one work package
RECURSIVE WpPaths(_, _, _, _, _)
WpPaths(cands, idx, paths, k, value_map) ==
    IF k > Len(paths) THEN value_map
    ELSE WpPaths(cands, idx, paths, k + 1,
                 WpKeys(cands, idx, paths[k], Lower(paths[k]), 1, value_map))

\* the loop over the work packages from zero-based position idx on
RECURSIVE WpPass(_, _, _, _)
WpPass(work_packages, paths, idx, value_map) ==
    IF idx >= Len(work_packages) THEN value_map
    ELSE WpPass(work_packages, paths, idx + 1,
             WpPaths(WpCandidates(work_packages[idx + 1], idx), idx, paths, 1, value_map))

\* the dict returned, when the first loop raises nothing (FixedPassError)
build_field_value_map(payload, existing_field_paths) ==
    WpPass(payload.workPackages, existing_field_paths, 0,
           FixedPass(payload, existing_field_paths, 1, << >>))

\* one preview entry for a path
PreviewEntry(mapped, path) ==
    IF DictHas(mapped, path)
    THEN [path |-> path, value |-> DictGet(mapped, path).value,
          source |-> DictGet(mapped, path).source, status |-> "willFill"]
    ELSE [path |-> path, value |-> "", source |-> "", status |-> "skipped"]

PreviewOf(mapped, paths) == [i \in 1..Len(paths) |-> PreviewEntry(mapped, paths[i])]

\* the loop of build_mapping_preview with the skipped paths left out, as a
\* wrong implementation would have it
PreviewMappedOnly(payload, existing_field_paths) ==
    LET InMap(path) == DictHas(build_field_value_map(payload, existing_field_paths), path)
    IN  PreviewOf(build_field_value_map(payload, existing_field_paths),
                  SelectSeq(existing_field_paths, InMap))

build_mapping_preview(payload, existing_field_paths) ==
    PreviewOf(build_field_value_map(payload, existing_field_paths), existing_field_paths)

-----------------------------------------------------------------------------
(* Container adapter.  A container is [root, acroform, xfa]: whether the    *)
(* trailer has /Root, whether /Root has /AcroForm, and the /XFA entry, None *)
(* or [list, items].  An item of the XFA array is [name, data]: str(item)   *)
(* and, for a stream, the XML document its data decodes to (<< >> when the  *)
(* bytes are no well-formed XML).                                           *)

NameItem(name) == [name |-> name, data |-> << >>]
StreamItem(xml) == [name |-> "<stream>", data |-> xml]

\* the loop of _get_xfa_datasets_stream from zero-based position i on: the
\* one-based position of the stream returned, 0 for None
RECURSIVE DatasetsFrom(_, _)
DatasetsFrom(items, i) ==
    IF i >= Len(items) THEN 0
    ELSE IF i + 1 >= Len(items) THEN DatasetsFrom(items, i + 2)
    ELSE IF items[i + 1].name = "datasets" THEN i + 2
    ELSE DatasetsFrom(items, i + 2)

\* the last part of the array whatever its name, as a wrong implementation would have it
DatasetsStreamLastPart(pdf) ==
    IF ~pdf.root \/ ~pdf.acroform \/ IsNone(pdf.xfa) \/ ~Get(pdf.xfa).list THEN 0
    ELSE IF Len(Get(pdf.xfa).items) >= 2 THEN 2 * (Len(Get(pdf.xfa).items) \div 2) ELSE 0

_get_xfa_datasets_stream(pdf) ==
    IF ~pdf.root THEN 0
    ELSE IF ~pdf.acroform THEN 0
    ELSE IF IsNone(pdf.xfa) THEN 0
    ELSE IF Get(pdf.xfa).list THEN DatasetsFrom(Get(pdf.xfa).items, 0)
    ELSE 0

\* xml_root.iter(): the nodes of the subtree of n in document order
RECURSIVE Iter(_, _)
RECURSIVE IterOver(_, _, _)
IterOver(xml, children, k) ==
    IF k > Len(children) THEN << >>
    ELSE Iter(xml, children[k]) \o IterOver(xml, children, k + 1)

Iter(xml, n) == << n >> \o IterOver(xml, Children(xml, n), 1)

\* the second loop of _find_xfa_data_root over the children of data_node
FirstElemChild(children) ==
    IF children = << >>
    THEN [ok |-> FALSE, node |-> 0, error |-> "Kein Daten-Root unter <xfa:data> gefunden."]
    ELSE [ok |-> TRUE, node |-> children[1], error |-> ""]

\* the wrapper itself taken for the Data Root when it has no element child, as
\* a wrong implementation would have it
DataRootOrWrapper(xml, found) ==
    IF found = << >>
    THEN [ok |-> FALSE, node |-> 0, error |-> "<xfa:data> im datasets XML nicht gefunden."]
    ELSE IF ElemChildren(xml, found[1]) = << >>
    THEN [ok |-> TRUE, node |-> found[1], error |-> ""]
    ELSE FirstElemChild(ElemChildren(xml, found[1]))

\* the rest of _find_xfa_data_root, found the elements named data in document order
DataRootOf(xml, found) ==
    IF found = << >>
    THEN [ok |-> FALSE, node |-> 0, error |-> "<xfa:data> im datasets XML nicht gefunden."]
    ELSE FirstElemChild(ElemChildren(xml, found[1]))

\* [ok, node, error]: the Data Root, or the ValueError raised
_find_xfa_data_root(xml) ==
    LET IsData(n) == xml[n].elem /\ local_name(xml[n].tag) = "data"
    IN  DataRootOf(xml, SelectSeq(Iter(xml, 1), IsData))

NoContext(status, error) ==
    [status |-> status, error |-> error, slot |-> 0, xml_root |-> << >>,
     data_root |-> 0, field_paths |-> << >>]

\* the XfaContext for the Data Root found
ContextOf(slot, xml_root, found) ==
    IF ~found.ok THEN NoContext("raised", "ValueError: " \o found.error)
    ELSE [status |-> "ok", error |-> "", slot |-> slot,
          xml_root |-> xml_root, data_root |-> found.node,
          field_paths |-> _leaf_paths(xml_root, found.node,
                                      local_name(xml_root[found.node].tag))]

\* etree.fromstring and the rest of load_xfa_context
LoadXml(slot, xml_root) ==
    IF xml_root = << >> THEN NoContext("raised", "XMLSyntaxError")
    ELSE ContextOf(slot, xml_root, _find_xfa_data_root(xml_root))

LoadStream(pdf_bytes, slot) ==
    IF slot = 0 THEN NoContext("none", "")
    ELSE LoadXml(slot, Get(pdf_bytes.xfa).items[slot].data)

\* [status, ...]: status "none" for None, "raised" for an exception, "ok"
\* for an XfaContext
load_xfa_context(pdf_bytes) == LoadStream(pdf_bytes, _get_xfa_datasets_stream(pdf_bytes))

PdfKeywords == {"akronym", "projektakronym", "projektname", "kurzbezeichnung"}

RECURSIVE ExtractFrom(_, _, _, _)
\* one round of the loop of _extract_pdf_acronym, val the text of the k-th path's node
ExtractStep(xml, data_root, field_paths, k, val) ==
    IF _contains_any(Lower(field_paths[k]), PdfKeywords) /\ val # ""
    THEN Some(val)
    ELSE ExtractFrom(xml, data_root, field_paths, k + 1)

\* the loop of _extract_pdf_acronym from the k-th path on: None or the text
ExtractFrom(xml, data_root, field_paths, k) ==
    IF k > Len(field_paths) THEN None
    ELSE ExtractStep(xml, data_root, field_paths, k,
                     get_node_text(xml, data_root, field_paths[k]))

_extract_pdf_acronym(xml, data_root, field_paths) == ExtractFrom(xml, data_root, field_paths, 1)

\* the new text appended to the old one, as a wrong implementation would have it
WriteNodeAppend(xml, node, value) ==
    IF node = 0 THEN [ok |-> FALSE, xml |-> xml, node |-> 0]
    ELSE [ok |-> TRUE, node |-> node,
          xml |-> [xml EXCEPT ![node].text =
                      Some((IF IsNone(@) THEN "" ELSE Get(@)) \o Strip(value))]]

\* lines 136-139 of set_node_text for the node found
WriteNode(xml, node, value) ==
    IF node = 0 THEN [ok |-> FALSE, xml |-> xml, node |-> 0]
    ELSE [ok |-> TRUE, node |-> node,
          xml |-> [xml EXCEPT ![node].text = Some(Strip(value))]]

\* [ok, xml, node]: the return value, the tree afterwards, the node written
set_node_text(xml, data_root, path, value) ==
    WriteNode(xml, find_node(xml, data_root, path), value)

\* text of nothing but whitespace dropped on the way, as a wrong implementation
\* would have it
TostringBlankDropped(xml) ==
    [i \in 1..Len(xml) |->
        IF ~IsNone(xml[i].text) /\ Strip(Get(xml[i].text)) = ""
        THEN [xml[i] EXCEPT !.text = None]
        ELSE xml[i]]

\* etree.tostring then etree.fromstring: an element whose text is the empty
\* string reads back with no text
Tostring(xml) ==
    [i \in 1..Len(xml) |-> IF xml[i].text = Some("") THEN [xml[i] EXCEPT !.text = None]
                           ELSE xml[i]]

\* stream.set_data and the cloned container written out
WriteContainer(pdf, slot, xml) ==
    [pdf EXCEPT !.xfa = Some([Get(pdf.xfa) EXCEPT !.items[slot].data = Tostring(xml)])]

-----------------------------------------------------------------------------
(* Orchestrator *)

\* the comparison both operations make
Differ(pdf_acronym, project_name) ==
    Casefold(Strip(pdf_acronym)) # Casefold(Strip(project_name))

\* `normalize_text(...) or None`
OrNone(s) == IF s = "" THEN None ELSE Some(s)

NoAnalysis ==
    [isXfa |-> FALSE, pdfAcronym |-> None, projectName |-> None, acronymMismatch |-> None,
     fields |-> << >>, mappingPreview |-> << >>]

\* lines 310-312: None unless both are present
MismatchOf(pdf_acronym, project_name) ==
    IF ~IsNone(pdf_acronym) /\ ~IsNone(project_name)
    THEN Some(Differ(Get(pdf_acronym), Get(project_name)))
    ELSE None

\* lines 309-321 of analyze_pdf: the dict, or the exception of the preview
AnalyzeContext(context, payload, project_name, pdf_acronym) ==
    IF FixedPassError(payload, context.field_paths, 1) # ""
    THEN [outcome |-> "raised", error |-> FixedPassError(payload, context.field_paths, 1),
          result |-> NoAnalysis]
    ELSE [outcome |-> "ok", error |-> "",
          result |-> [isXfa |-> TRUE, pdfAcronym |-> pdf_acronym,
                      projectName |-> project_name,
                      acronymMismatch |-> MismatchOf(pdf_acronym, project_name),
                      fields |-> context.field_paths,
                      mappingPreview |-> build_mapping_preview(payload, context.field_paths)]]

\* analyze_pdf after load_xfa_context
AnalyzeLoaded(context, payload, project_name) ==
    IF context.status = "raised"
    THEN [outcome |-> "raised", error |-> context.error, result |-> NoAnalysis]
    ELSE IF context.status = "none"
    THEN [outcome |-> "ok", error |-> "",
          result |-> [isXfa |-> FALSE, pdfAcronym |-> None, projectName |-> project_name,
                      acronymMismatch |-> None, fields |-> << >>,
                      mappingPreview |-> << >>]]
    ELSE AnalyzeContext(context, payload, project_name,
                        _extract_pdf_acronym(context.xml_root, context.data_root,
                                             context.field_paths))

\* [outcome, error, result]: outcome "ok" with the dict returned, or "raised"
analyze_pdf(pdf_bytes, payload) ==
    AnalyzeLoaded(load_xfa_context(pdf_bytes), payload,
                  OrNone(normalize_text(payload.project.name)))

\* one round of the writing loop, r what set_node_text returned
FillStep(acc, r) ==
    IF r.ok
    THEN [xml |-> r.xml, filled_count |-> acc.filled_count + 1,
          written |-> acc.written \cup {r.node}]
    ELSE acc

\* the writing loop of fill_pdf over the items of value_map from the k-th on:
\* [xml, filled_count, written], written the nodes whose text was set
RECURSIVE FillLoop(_, _, _, _)
FillLoop(data_root, value_map, k, acc) ==
    IF k > Len(value_map) THEN acc
    ELSE FillLoop(data_root, value_map, k + 1,
                  FillStep(acc, set_node_text(acc.xml, data_root, value_map[k].path,
                                              value_map[k].value)))

NoMeta ==
    [pdfAcronym |-> None, projectName |-> None, acronymMismatch |-> None,
     downloadName |-> "", filledCount |-> 0]

NoFill ==
    [outcome |-> "none", error |-> "", confirm |-> FALSE, output |-> None, meta |-> NoMeta,
     written |-> {}, pdf_acronym |-> None, project_name |-> ""]

\* line 331
Mismatch(pdf_acronym, project_name) ==
    /\ ~IsNone(pdf_acronym)
    /\ project_name # ""
    /\ Differ(Get(pdf_acronym), project_name)

\* the mismatch raised whatever the confirmation, as a wrong implementation would have it
MismatchBlocksIgnoringConfirm(mismatch, confirm_mismatch) == mismatch

\* the test of line 333
MismatchBlocks(mismatch, confirm_mismatch) == mismatch /\ ~confirm_mismatch

\* lines 342-359 of fill_pdf, done what the writing loop left
FillResult(pdf_bytes, payload, confirm_mismatch, context, project_name, pdf_acronym, mismatch, done) ==
    [outcome |-> "ok", error |-> "", confirm |-> confirm_mismatch,
     output |-> Some(WriteContainer(pdf_bytes, context.slot, done.xml)),
     meta |-> [pdfAcronym |-> pdf_acronym,
               projectName |-> OrNone(project_name),
               acronymMismatch |-> Some(mismatch),
               downloadName |->
                   slugify_ascii(project_name, "Projekt") \o "_"
                     \o slugify_ascii(normalize_text(payload.company.name), "Unternehmen")
                     \o "_Mantelbogen.pdf",
               filledCount |-> done.filled_count],
     written |-> done.written,
     pdf_acronym |-> pdf_acronym, project_name |-> project_name]

\* lines 333-359 of fill_pdf
FillChecked(pdf_bytes, payload, confirm_mismatch, context, project_name, pdf_acronym, mismatch) ==
    IF MismatchBlocks(mismatch, confirm_mismatch)
    THEN [NoFill EXCEPT !.outcome = "raised", !.confirm = confirm_mismatch,
             !.error = "PermissionError: ACRONYM_MISMATCH",
             !.pdf_acronym = pdf_acronym, !.project_name = project_name]
    ELSE IF FixedPassError(payload, context.field_paths, 1) # ""
    THEN [NoFill EXCEPT !.outcome = "raised", !.confirm = confirm_mismatch,
             !.error = FixedPassError(payload, context.field_paths, 1),
             !.pdf_acronym = pdf_acronym, !.project_name = project_name]
    ELSE FillResult(pdf_bytes, payload, confirm_mismatch, context, project_name,
                    pdf_acronym, mismatch,
                    FillLoop(context.data_root,
                             build_field_value_map(payload, context.field_paths), 1,
                             [xml |-> context.xml_root, filled_count |-> 0,
                              written |-> {}]))

\* lines 329-331 of fill_pdf
FillCompared(pdf_bytes, payload, confirm_mismatch, context, project_name, pdf_acronym) ==
    FillChecked(pdf_bytes, payload, confirm_mismatch, context, project_name, pdf_acronym,
                Mismatch(pdf_acronym, project_name))

\* fill_pdf after load_xfa_context
FillLoaded(pdf_bytes, payload, confirm_mismatch, context) ==
    IF context.status = "none"
    THEN [NoFill EXCEPT !.outcome = "raised", !.confirm = confirm_mismatch,
             !.error = "ValueError: Die hochgeladene PDF enthaelt kein XFA datasets Formular."]
    ELSE IF context.status = "raised"
    THEN [NoFill EXCEPT !.outcome = "raised", !.confirm = confirm_mismatch,
             !.error = context.error]
    ELSE FillCompared(pdf_bytes, payload, confirm_mismatch, context,
                      normalize_text(payload.project.name),
                      _extract_pdf_acronym(context.xml_root, context.data_root,
                                           context.field_paths))

\* [outcome, error, output, meta, ...]: outcome "ok" with the bytes and the
\* metadata returned, or "raised" with the exception; written, pdf_acronym and
\* project_name record what the call wrote and compared
fill_pdf(pdf_bytes, payload, confirm_mismatch) ==
    FillLoaded(pdf_bytes, payload, confirm_mismatch, load_xfa_context(pdf_bytes))

-----------------------------------------------------------------------------
(* Inputs: bounded families of containers and payloads *)

\* the most elements in the Data Root's subtree of a document
MaxNodes == 3
\* the most elements in the Data Root's subtree of a tree of plain names
MaxTreeNodes == 4
\* the most work packages of a payload
MaxWP == 2

Kind(elem, tag, text) == [elem |-> elem, tag |-> tag, text |-> text]

\* the subtrees of at most max nodes: node 1 from rootKinds, the others from
\* kinds, each under an earlier element
Subtrees(max, rootKinds, kinds) ==
    UNION { { [parent |-> p, kind |-> k] :
                p \in { q \in [1..n -> 0..(n - 1)] :
                          /\ q[1] = 0
                          /\ \A i \in 2..n : q[i] >= 1 /\ q[i] < i },
                k \in { f \in [1..n -> rootKinds \cup kinds] :
                          /\ f[1] \in rootKinds
                          /\ \A i \in 2..n : f[i] \in kinds } }
            : n \in 1..max }

WellFormed(t) == \A i \in DOMAIN t.parent : t.parent[i] = 0 \/ t.kind[t.parent[i]].elem

\* the datasets document around a subtree: <xfa:datasets><xfa:data>subtree
DatasetsXml(t) ==
    << Elem("{x}datasets", 0, None), Elem("{x}data", 1, None) >>
      \o [i \in DOMAIN t.parent |->
            [elem |-> t.kind[i].elem, tag |-> t.kind[i].tag,
             parent |-> t.parent[i] + 2, text |-> t.kind[i].text]]

TemplateXml == << Elem("template", 0, None) >>

XfaPdf(items) == [root |-> TRUE, acroform |-> TRUE, xfa |-> Some([list |-> TRUE, items |-> items])]

\* a form whose datasets part is the second part of the XFA array
FormPdf(xml) ==
    XfaPdf(<< NameItem("template"), StreamItem(TemplateXml),
              NameItem("datasets"), StreamItem(xml) >>)

DocRootKinds == { Kind(TRUE, "form", None), Kind(TRUE, "Projektname", Some("abc")) }
DocKinds ==
    { Kind(TRUE, "Akronym", Some("ABC")), Kind(TRUE, "{n}Akronym", Some(" ")),
      Kind(TRUE, "item", Some(" v")), Kind(FALSE, "", None) }

DocPdfs ==
    { FormPdf(DatasetsXml(t)) :
        t \in { u \in Subtrees(MaxNodes, DocRootKinds, DocKinds) : WellFormed(u) } }

\* containers with no data packet, and containers whose packet cannot be loaded
OddPdfs ==
    { [root |-> FALSE, acroform |-> FALSE, xfa |-> None],
      [root |-> TRUE, acroform |-> FALSE, xfa |-> None],
      [root |-> TRUE, acroform |-> TRUE, xfa |-> None],
      [root |-> TRUE, acroform |-> TRUE, xfa |-> Some([list |-> FALSE, items |-> << >>])],
      XfaPdf(<< >>),
      XfaPdf(<< NameItem("template"), StreamItem(TemplateXml) >>),
      XfaPdf(<< NameItem("template"), StreamItem(TemplateXml), NameItem("datasets") >>),
      FormPdf(<< >>),
      FormPdf(<< Elem("{x}datasets", 0, None) >>),
      FormPdf(<< Elem("{x}datasets", 0, None), Elem("{x}data", 1, None) >>),
      FormPdf(<< Elem("{x}datasets", 0, None), Elem("{x}data", 1, Some("t")),
                 Comment(2) >>),
      FormPdf(<< Elem("data", 0, None), Elem("form", 1, None), Elem("Akronym", 2, Some("ABC")),
                 Elem("other", 1, None), Elem("Akronym", 4, Some("XYZ")) >>),
      XfaPdf(<< NameItem("datasets"),
                StreamItem(<< Elem("data", 0, None), Elem("form", 1, None),
                              Elem("Kurzbezeichnung", 2, Some("Strasse")) >>) >>) }

TreeRootKinds == { Kind(TRUE, "r", None) }
TreeKinds == { Kind(TRUE, "a", None), Kind(TRUE, "{n}a", Some("t")), Kind(TRUE, "b", None) }

PlainPdfs ==
    { FormPdf(DatasetsXml(t)) : t \in Subtrees(MaxTreeNodes, TreeRootKinds, TreeKinds) }

\* one name for each fixed category, in the order of the rules, and one for none
CategoryTags ==
    { "Akronym", "Firma", "beginn", "ende", "dauer", "personalkosten", "projektsumme",
      "foerdersumme", "foerderquote_pct", "zuschlag", "maxfoerderbetrag", "realzuschlag",
      "differenz", "notiz" }

\* names holding a key fragment of a work package
ApTags == { "ap" \o ToString(n) \o "_nr" : n \in 1..(MaxWP + 1) } \cup { "AP1_Bezeichnung", "ap2_pm_von" }

\* the Data Root "form" over one leaf named a
LeafXml(a) ==
    DatasetsXml([parent |-> << 0, 1 >>,
                 kind |-> << Kind(TRUE, "form", None), Kind(TRUE, a, Some("old")) >>])

\* the Data Root "form" over an element a over one leaf named b
ChainXml(a, b) ==
    DatasetsXml([parent |-> << 0, 1, 2 >>,
                 kind |-> << Kind(TRUE, "form", None), Kind(TRUE, a, None),
                             Kind(TRUE, b, Some("old")) >>])

\* the Data Root "form" over two leaves named a and b
PairXml(a, b) ==
    DatasetsXml([parent |-> << 0, 1, 1 >>,
                 kind |-> << Kind(TRUE, "form", None), Kind(TRUE, a, None),
                             Kind(TRUE, b, Some("old")) >>])

EmptyProject == [name |-> JNull, startDate |-> JNull, endDate |-> JNull, durationMonths |-> JNull]
EmptyCompany ==
    [name |-> JNull,
     funding |-> [ratePct |-> JNull, surchargePct |-> JNull, maxProjectSum |-> JNull],
     computed |-> [personnelCost |-> JNull, projectSum |-> JNull, fundingSum |-> JNull,
                   realSurchargePct |-> JNull, verschenkt |-> JNull]]
FullProject ==
    [name |-> JNull, startDate |-> JStr("2024-03-05"), endDate |-> JStr(" Q4/2025 "),
     durationMonths |-> JNum(2400)]
FullCompany ==
    [name |-> JStr("Gruen & Co. KG"),
     funding |-> [ratePct |-> JNum(4500), surchargePct |-> JNum(1234),
                  maxProjectSum |-> JNum(38000000)],
     computed |-> [personnelCost |-> JNum(123450), projectSum |-> JNum(25000099),
                   fundingSum |-> JNum(11250000), realSurchargePct |-> JNum(996),
                   verschenkt |-> JNum(-150)]]

Payload(name, project, company, wps) ==
    [json_ok |-> TRUE, project |-> [project EXCEPT !.name = name], company |-> company,
     workPackages |-> wps]

EmptyPayload(name) == Payload(name, EmptyProject, EmptyCompany, << >>)
FullPayload(name, wps) == Payload(name, FullProject, FullCompany, wps)

\* a request whose payload form field is no JSON document
BadJsonPayload == [EmptyPayload(JNull) EXCEPT !.json_ok = FALSE]

WpFull == [nr |-> JNum(100), title |-> JStr(" Konzept "), pm |-> JNum(250)]
WpEmpty == [nr |-> JNull, title |-> JStr(""), pm |-> JNum(0)]

\* up to MaxWP full work packages, or an empty one ahead of a full one
WpLists ==
    { [i \in 1..n |-> WpFull] : n \in 0..MaxWP } \cup { << WpEmpty, WpFull >> }

ProjectNames == { JNull, JStr("XYZ"), JStr(" abc ") }

DocPayloads ==
    { EmptyPayload(name) : name \in ProjectNames } \cup { FullPayload(JStr("XYZ"), << WpFull >>) }

ApXmls ==
    { LeafXml(a) : a \in ApTags }
    \cup { ChainXml(c, a) : c \in { "Firma", "notiz" }, a \in ApTags }
    \cup { PairXml("ap1_nr", "ap1_nr") }

Inputs ==
    (DocPdfs \cup OddPdfs) \X DocPayloads
    \cup { FormPdf(LeafXml("Akronym")), XfaPdf(<< >>) } \X { BadJsonPayload }
    \cup PlainPdfs \X { EmptyPayload(JStr("r")) }
    \cup { FormPdf(ChainXml(a, b)) : a \in CategoryTags, b \in CategoryTags }
            \X { FullPayload(JStr("XYZ"), << >>) }
    \cup { FormPdf(LeafXml(a)) : a \in CategoryTags }
            \X { FullPayload(JStr("XYZ"), << >>), EmptyPayload(JNull) }
    \cup { FormPdf(xml) : xml \in ApXmls }
            \X { FullPayload(JStr("XYZ"), wps) : wps \in WpLists }

-----------------------------------------------------------------------------
(* State: one request at a time against the HTTP layer *)

VARIABLES
    pdf_bytes,      \* the uploaded file
    payload,        \* the payload form field, decoded
    analysis,       \* what the request's call of analyze_pdf returned or raised
    fill,           \* what the request's call of fill_pdf returned or raised
    response,       \* the HTTP response of the request
    resubmitted     \* whether the uploaded file is one a fill with this payload returned

vars == << pdf_bytes, payload, analysis, fill, response, resubmitted >>

NoCall == [outcome |-> "none", error |-> "", result |-> NoAnalysis]

NoResponse ==
    [handler |-> "", status |-> 0, detail |-> "", pdfAcronym |-> None, projectName |-> None,
     content |-> None, filename |-> ""]

Init ==
    /\ \E in \in Inputs : pdf_bytes = in[1] /\ payload = in[2]
    /\ analysis = NoCall
    /\ fill = NoFill
    /\ response = NoResponse
    /\ resubmitted = FALSE

\* lines 30-33 of analyze_zim_pdf, got what analyze_pdf returned or raised
AnalyzeResponse(got) ==
    IF got.outcome = "ok"
    THEN [NoResponse EXCEPT !.handler = "analyze", !.status = 200,
             !.pdfAcronym = got.result.pdfAcronym,
             !.projectName = got.result.projectName]
    ELSE [NoResponse EXCEPT !.handler = "analyze", !.status = 400, !.detail = got.error]

AnalyzeCalled(got) ==
    /\ analysis' = got
    /\ response' = AnalyzeResponse(got)

\* POST /api/zim/analyze
analyze_zim_pdf ==
    /\ fill' = NoFill
    /\ IF ~payload.json_ok
       THEN /\ analysis' = NoCall
            /\ response' = [NoResponse EXCEPT !.handler = "analyze", !.status = 400,
                               !.detail = "Ungueltiges payload JSON"]
       ELSE AnalyzeCalled(analyze_pdf(pdf_bytes, payload))
    /\ UNCHANGED << pdf_bytes, payload, resubmitted >>

\* lines 50-57 of fill_zim_pdf, preview what analyze_pdf returned or raised
MismatchResponse(preview) ==
    /\ analysis' = preview
    /\ response' =
         IF preview.outcome = "ok"
         THEN [NoResponse EXCEPT !.handler = "fill", !.status = 409,
                  !.detail = "Akronym in PDF weicht vom Projektnamen ab.",
                  !.pdfAcronym = preview.result.pdfAcronym,
                  !.projectName = preview.result.projectName]
         ELSE [NoResponse EXCEPT !.handler = "fill", !.status = 500,
                  !.detail = preview.error]

\* lines 48-63 of fill_zim_pdf, got what fill_pdf returned or raised
FillCalled(got) ==
    /\ fill' = got
    /\ IF got.outcome = "ok"
       THEN /\ analysis' = NoCall
            /\ response' =
                 [NoResponse EXCEPT !.handler = "fill", !.status = 200,
                     !.content = got.output,
                     !.filename = IF got.meta.downloadName # ""
                                  THEN got.meta.downloadName
                                  ELSE "Mantelbogen.pdf"]
       ELSE IF got.error = "PermissionError: ACRONYM_MISMATCH"
       THEN MismatchResponse(analyze_pdf(pdf_bytes, payload))
       ELSE /\ analysis' = NoCall
            /\ response' = [NoResponse EXCEPT !.handler = "fill", !.status = 400,
                               !.detail = got.error]

\* POST /api/zim/fill
fill_zim_pdf(confirmMismatch) ==
    /\ IF ~payload.json_ok
       THEN /\ fill' = NoFill
            /\ analysis' = NoCall
            /\ response' = [NoResponse EXCEPT !.handler = "fill", !.status = 400,
                               !.detail = "Ungueltiges payload JSON"]
       ELSE FillCalled(fill_pdf(pdf_bytes, payload, confirmMismatch))
    /\ UNCHANGED << pdf_bytes, payload, resubmitted >>

\* the client uploads the file a fill returned, with the same payload
Resubmit ==
    /\ response.handler = "fill"
    /\ response.status = 200
    /\ pdf_bytes' = Get(response.content)
    /\ analysis' = NoCall
    /\ fill' = NoFill
    /\ response' = NoResponse
    /\ resubmitted' = TRUE
    /\ UNCHANGED payload

Next ==
    \/ analyze_zim_pdf
    \/ \E confirmMismatch \in BOOLEAN : fill_zim_pdf(confirmMismatch)
    \/ Resubmit

Spec == Init /\ [][Next]_vars

\* the requests of Inputs, and requests whose numeric fields hold what a JSON
\* document may hold there (a number, a decimal as text, a decimal with a
\* comma, a blank) for forms of two leaves: an identity leaf, a leaf of a
\* numeric category, or a leaf of no category
InitAny ==
    /\ \/ \E in \in Inputs : pdf_bytes = in[1] /\ payload = in[2]
       \/ \E a, b \in { "Akronym", "personalkosten", "foerderquote_pct", "notiz" },
             name \in ProjectNames,
             v \in { JNum(123450), JStr(" 12.5 "), JStr("12,5"), JStr(" ") } :
               /\ pdf_bytes =
                    FormPdf(DatasetsXml([parent |-> << 0, 1, 1 >>,
                                         kind |-> << Kind(TRUE, "form", None),
                                                     Kind(TRUE, a, Some("ABC")),
                                                     Kind(TRUE, b, Some("ABC")) >>]))
               /\ payload = Payload(name, FullProject,
                                    [FullCompany EXCEPT !.computed.personnelCost = v,
                                                        !.funding.ratePct = v],
                                    << >>)
    /\ analysis = NoCall
    /\ fill = NoFill
    /\ response = NoResponse
    /\ resubmitted = FALSE

SpecAny == InitAny /\ [][Next]_vars

-----------------------------------------------------------------------------
(* Properties.  Context is the data packet of the uploaded file as          *)
(* load_xfa_context reads it; a formula reads it once and hands it on.      *)

\* the set of the elements of a sequence
Range(seq) == { seq[i] : i \in 1..Len(seq) }

\* the request's analyze_pdf returned the analysis of an XFA form
Analyzed == analysis.outcome = "ok" /\ analysis.result.isXfa

\* the request called fill_pdf, and fill_pdf returned bytes and metadata
FillAttempted == fill.outcome # "none"
Filled == fill.outcome = "ok"

Context == load_xfa_context(pdf_bytes)

\* the elements of the Data Root's subtree, and its leaves
ElementsOf(c) ==
    LET IsElement(n) == c.xml_root[n].elem
    IN  Range(SelectSeq(Iter(c.xml_root, c.data_root), IsElement))
LeavesOf(c) == { n \in ElementsOf(c) : ElemChildren(c.xml_root, n) = << >> }

\* the node a path resolves to against the Data Root, 0 for none
ResolveIn(c, path) == find_node(c.xml_root, c.data_root, path)

\* the paths resolve each to one node, no two of them to the same node, every
\* node resolved is a leaf, and the nodes resolved are as many as the leaves
ResolveToLeaves(c, paths, leaves) ==
    LET node == [i \in 1..Len(paths) |-> ResolveIn(c, paths[i])]
    IN  /\ \A i \in 1..Len(paths) : node[i] # 0
        /\ \A i, j \in 1..Len(paths) : node[i] = node[j] => i = j
        /\ \A i \in 1..Len(paths) : node[i] \in leaves
        /\ Cardinality(Range(node)) = Cardinality(leaves)

\* C1: the paths analyze_pdf indexed resolve each to one node, no two of them
\* to the same node, every node resolved is a leaf, and the nodes resolved are
\* as many as the leaves of the tree
LeafPathsResolveToLeaves ==
    Analyzed => ResolveToLeaves(Context, analysis.result.fields, LeavesOf(Context))

\* a tree of three leaves, two of them same-named siblings, was indexed
SiblingLeavesIndexed ==
    /\ Analyzed
    /\ Cardinality(LeavesOf(Context)) = 3
    /\ analysis.result.fields = << "r/a[0]", "r/a[1]", "r/b" >>

\* the path of _leaf_paths to an element of the Data Root's subtree
RECURSIVE PathTo(_, _)
PathTo(c, n) ==
    IF n = c.data_root THEN local_name(c.xml_root[n].tag)
    ELSE PathTo(c, c.xml_root[n].parent) \o "/"
           \o _segment_name(c.xml_root, n,
                            ElemChildren(c.xml_root, c.xml_root[n].parent))

\* the children among siblings named as child is, in document order
SameNamed(c, siblings, child) ==
    LET Same(s) == local_name(c.xml_root[s].tag) = local_name(c.xml_root[child].tag)
    IN  SelectSeq(siblings, Same)

\* the claim for one child of parent, path the paths of the elements
SiblingDisambiguated(c, path, fields, parent, siblings, child, same) ==
    LET name == local_name(c.xml_root[child].tag)
        i == CHOOSE k \in 1..Len(same) : same[k] = child
    IN  Len(same) >= 2 =>
          /\ _segment_name(c.xml_root, child, siblings)
                 = name \o "[" \o ToString(i - 1) \o "]"
          /\ ResolveIn(c, path[child]) = child
          /\ \A d \in Range(siblings) : d # child => path[d] # path[child]
          /\ ResolveIn(c, path[parent] \o "/" \o name) = same[1]
          /\ ResolveIn(c, path[parent] \o "/" \o name \o "[0]") = same[1]
          /\ ElemChildren(c.xml_root, child) = << >> => path[child] \in Range(fields)

SiblingsDisambiguatedIn(c, elements, path, fields) ==
    \A parent \in elements :
        \A child \in Range(ElemChildren(c.xml_root, parent)) :
            SiblingDisambiguated(c, path, fields, parent,
                                 ElemChildren(c.xml_root, parent), child,
                                 SameNamed(c, ElemChildren(c.xml_root, parent), child))

\* C5: under every parent, a child with a same-named sibling has the segment
\* name[i], i its zero-based position among the same-named children, so the
\* siblings' paths differ pairwise; the path with the bare name resolves to
\* the node the path with name[0] resolves to, the first occurrence; and the
\* leaves among them are indexed under those paths
SiblingsDisambiguated ==
    Analyzed =>
        SiblingsDisambiguatedIn(Context, ElementsOf(Context),
                                [n \in ElementsOf(Context) |-> PathTo(Context, n)],
                                analysis.result.fields)

\* a parent below the Data Root with two same-named children, of different
\* namespaces, was indexed
NestedSiblingsIndexed ==
    /\ Analyzed
    /\ analysis.result.fields = << "r/a/a[0]", "r/a/a[1]" >>
    /\ \E n \in ElementsOf(Context) : Context.xml_root[n].tag = "{n}a"

\* the identity the document holds, None for none, and the payload's project
\* name, "" for none
IdentityOf(c) ==
    IF c.status = "ok" THEN _extract_pdf_acronym(c.xml_root, c.data_root, c.field_paths)
    ELSE None
ProjectName == normalize_text(payload.project.name)

BothPresent(identity, name) == ~IsNone(identity) /\ name # ""

\* both are present and differ, trimmed and case-folded
BothDiffer(identity, name) ==
    BothPresent(identity, name) /\ Casefold(Strip(Get(identity))) # Casefold(Strip(name))

MismatchSignal ==
    fill.outcome = "raised" /\ fill.error = "PermissionError: ACRONYM_MISMATCH"

\* the mismatch protocol for the identity of the document and the project name
MismatchProtocol(identity, name) ==
    /\ (FillAttempted /\ BothDiffer(identity, name) /\ ~fill.confirm) =>
           /\ MismatchSignal
           /\ response.status = 409
           /\ response.pdfAcronym = identity
           /\ response.projectName = Some(name)
           /\ IsNone(fill.output) /\ IsNone(response.content)
           /\ fill.written = {}
    /\ (FillAttempted /\ BothDiffer(identity, name) /\ fill.confirm) =>
           /\ Filled
           /\ ~IsNone(fill.output) /\ response.content = fill.output
           /\ response.status = 200
           /\ fill.meta.acronymMismatch = Some(TRUE)
    /\ (MismatchSignal \/ response.status = 409) =>
           FillAttempted /\ BothDiffer(identity, name) /\ ~fill.confirm

ExpectedFlag(identity, name) ==
    IF BothPresent(identity, name)
    THEN Some(Casefold(Strip(Get(identity))) # Casefold(Strip(name)))
    ELSE None

\* C3: the mismatch flag analyze_pdf reports and the one fill_pdf reports are
\* true when identity and project name are both present and differ, false
\* when both are present and equal, and null when either is absent
MismatchFlagTriState ==
    /\ analysis.outcome = "ok" =>
           analysis.result.acronymMismatch = ExpectedFlag(IdentityOf(Context), ProjectName)
    /\ Filled =>
           fill.meta.acronymMismatch = ExpectedFlag(IdentityOf(Context), ProjectName)

\* a fill of a document that holds no identity reported false, not null
FillReportsFalseForUnknown ==
    /\ Filled
    /\ IsNone(IdentityOf(Context))
    /\ ProjectName = "XYZ"
    /\ fill.meta.acronymMismatch = Some(FALSE)

\* the container holds a data packet: an XFA array with a part named datasets
HasDataPacket(pdf) ==
    /\ pdf.root
    /\ pdf.acroform
    /\ ~IsNone(pdf.xfa)
    /\ Get(pdf.xfa).list
    /\ \E k \in 1..Len(Get(pdf.xfa).items) :
           /\ k % 2 = 1
           /\ k + 1 <= Len(Get(pdf.xfa).items)
           /\ Get(pdf.xfa).items[k].name = "datasets"

\* C4: for a container with no data packet analyze_pdf returns isXfa false,
\* null identity and mismatch, the payload's project name and empty lists, and
\* fill_pdf raises ValueError and returns no bytes whatever confirm_mismatch is
NoPacketHandled ==
    ~HasDataPacket(pdf_bytes) =>
        /\ analysis.outcome # "none" =>
               /\ analysis.outcome = "ok"
               /\ analysis.result =
                      [isXfa |-> FALSE, pdfAcronym |-> None,
                       projectName |-> IF ProjectName = "" THEN None
                                       ELSE Some(ProjectName),
                       acronymMismatch |-> None, fields |-> << >>,
                       mappingPreview |-> << >>]
               /\ response.status = 200
        /\ FillAttempted =>
               /\ fill.outcome = "raised"
               /\ fill.error
                      = "ValueError: Die hochgeladene PDF enthaelt kein XFA datasets Formular."
               /\ IsNone(fill.output) /\ IsNone(response.content)
               /\ response.status = 400

\* a confirmed fill of a container whose XFA array has no datasets part failed
ConfirmedFillWithoutPacket ==
    /\ ~HasDataPacket(pdf_bytes)
    /\ ~IsNone(pdf_bytes.xfa)
    /\ Len(Get(pdf_bytes.xfa).items) >= 2
    /\ ProjectName = "XYZ"
    /\ fill.confirm
    /\ fill.outcome = "raised"
    /\ response.status = 400

\* the preview has one entry for each path, in order, "willFill" with the
\* mapped value and source for a path of the mapping, else "skipped" and empty
PreviewFollows(preview, paths, mapping) ==
    /\ Len(preview) = Len(paths)
    /\ \A i \in 1..Len(paths) :
           /\ preview[i].path = paths[i]
           /\ preview[i].status = "willFill"
                  <=> \E k \in 1..Len(mapping) : mapping[k].path = paths[i]
           /\ \A k \in 1..Len(mapping) :
                  mapping[k].path = paths[i] =>
                      /\ preview[i].value = mapping[k].value
                      /\ preview[i].source = mapping[k].source
           /\ preview[i].status # "willFill" =>
                  /\ preview[i].status = "skipped"
                  /\ preview[i].value = ""
                  /\ preview[i].source = ""

\* C6: the preview of analyze_pdf has one entry for each indexed path, in the
\* order of the index; the entry of a path of the field mapping is "willFill"
\* with the mapped value and source, the entry of any other path is "skipped"
\* with empty value and source
PreviewFollowsIndex ==
    Analyzed =>
        PreviewFollows(analysis.result.mappingPreview, analysis.result.fields,
                       build_field_value_map(payload, analysis.result.fields))

\* a preview with a skipped entry ahead of a mapped one
PreviewSkipsAndFills ==
    /\ Analyzed
    /\ Len(analysis.result.mappingPreview) >= 2
    /\ analysis.result.mappingPreview[1].status = "skipped"
    /\ analysis.result.mappingPreview[2].status = "willFill"

\* the leaf paths of a data packet, each with its leaf's text
LeafTexts(c) ==
    [i \in 1..Len(c.field_paths) |->
        [path |-> c.field_paths[i],
         text |-> c.xml_root[ResolveIn(c, c.field_paths[i])].text]]

\* C7: a fill of the file an earlier fill with the same payload returned
\* succeeds when confirmed, and its output has the leaf paths and the leaf
\* texts of that file
RefillChangesNothing ==
    resubmitted =>
        /\ (FillAttempted /\ fill.confirm) => Filled
        /\ Filled =>
               LeafTexts(load_xfa_context(Get(fill.output))) = LeafTexts(Context)

\* a file whose first fill wrote two leaves over their old text was filled again
FilledTwice ==
    /\ resubmitted
    /\ Filled
    /\ fill.confirm
    /\ fill.meta.filledCount = 2
    /\ \A n \in fill.written : Context.xml_root[n].text # Some("old")

\* the count is the number of nodes written, all of them leaves, of entries
\* of the mapping and of "willFill" entries of the preview
CountIsWrites(count, written, leaves, mapping, preview) ==
    /\ written \subseteq leaves
    /\ count = Cardinality(written)
    /\ count = Len(mapping)
    /\ count = Cardinality({ i \in 1..Len(preview) : preview[i].status = "willFill" })

\* C8: the filledCount of a successful fill is the number of nodes it wrote,
\* all of them leaves, the number of entries of the field mapping, and the
\* number of "willFill" entries of analyze_pdf's preview for the same file
\* and payload
FilledCountIsWrites ==
    Filled =>
        CountIsWrites(fill.meta.filledCount, fill.written, LeavesOf(Context),
                      build_field_value_map(payload, Context.field_paths),
                      analyze_pdf(pdf_bytes, payload).result.mappingPreview)

\* a fill wrote one of two leaves
OneOfTwoWritten ==
    /\ Filled
    /\ Cardinality(LeavesOf(Context)) = 2
    /\ fill.meta.filledCount = 1
    /\ Cardinality(fill.written) = 1

\* the nodes the paths of a field mapping resolve to
MappedNodes(c, mapping) == { ResolveIn(c, mapping[k].path) : k \in 1..Len(mapping) }

\* what the output of a fill keeps of the uploaded file: before and after are
\* the data packets, parts the XFA array, mapped the nodes of the mapping
FrameKept(output, before, after, parts, mapped) ==
    /\ output.root = pdf_bytes.root
    /\ output.acroform = pdf_bytes.acroform
    /\ Get(output.xfa).list = Get(pdf_bytes.xfa).list
    /\ Len(Get(output.xfa).items) = Len(parts)
    /\ \A k \in 1..Len(parts) :
           /\ Get(output.xfa).items[k].name = parts[k].name
           /\ k # before.slot => Get(output.xfa).items[k] = parts[k]
    /\ after.status = "ok"
    /\ after.data_root = before.data_root
    /\ Len(after.xml_root) = Len(before.xml_root)
    /\ \A n \in 1..Len(before.xml_root) :
           /\ after.xml_root[n].elem = before.xml_root[n].elem
           /\ after.xml_root[n].tag = before.xml_root[n].tag
           /\ after.xml_root[n].parent = before.xml_root[n].parent
           /\ n \notin mapped => after.xml_root[n].text = before.xml_root[n].text
    /\ after.field_paths = before.field_paths
    /\ mapped \subseteq LeavesOf(before)

\* C9: a step in which fill_pdf succeeds leaves the payload and the uploaded
\* file as they were, and the output of a successful fill differs from the
\* uploaded file in nothing but the text of leaves whose path is a key of the
\* field mapping: the other parts of the container, the elements, their names
\* and order, the leaf paths and every other text are the same
FillKeepsFrame ==
    /\ [][ fill'.outcome = "ok" => payload' = payload /\ pdf_bytes' = pdf_bytes ]_vars
    /\ [](Filled =>
            FrameKept(Get(fill.output), Context, load_xfa_context(Get(fill.output)),
                      Get(pdf_bytes.xfa).items,
                      MappedNodes(Context,
                                  build_field_value_map(payload, Context.field_paths))))

\* a fill wrote one leaf and left another, with its untrimmed text, as it was
UnmappedLeafKept ==
    /\ Filled
    /\ fill.meta.filledCount = 1
    /\ \E n \in LeavesOf(Context) \ fill.written :
           /\ Context.xml_root[n].text = Some(" v")
           /\ load_xfa_context(Get(fill.output)).xml_root[n].text = Some(" v")

\* the sources of the fixed categories in the priority order of the claim
CategorySources ==
    << "project.name", "company.name", "project.startDate", "project.endDate",
       "project.durationMonths", "company.computed.personnelCost",
       "company.computed.projectSum", "company.computed.fundingSum",
       "company.funding.ratePct", "company.funding.surchargePct",
       "company.funding.maxProjectSum", "company.computed.realSurchargePct",
       "company.computed.verschenkt" >>

\* the keyword test of the k-th category on a lower-cased path
CategoryMatches(k, low) ==
    CASE k = 1 -> IsAcronymPath(low)
      [] k = 2 -> IsCompanyPath(low)
      [] k = 3 -> IsStartPath(low)
      [] k = 4 -> IsEndPath(low)
      [] k = 5 -> IsDurationPath(low)
      [] k = 6 -> IsPersonnelCostPath(low)
      [] k = 7 -> IsProjectSumPath(low)
      [] k = 8 -> IsFundingSumPath(low)
      [] k = 9 -> IsFundingRatePath(low)
      [] k = 10 -> IsSurchargePath(low)
      [] k = 11 -> IsMaxProjectSumPath(low)
      [] k = 12 -> IsRealSurchargePath(low)
      [] k = 13 -> IsGiveawayPath(low)

\* the value of the k-th category for a payload and a lower-cased path
CategoryValue(k, data, low) ==
    CASE k = 1 -> normalize_text(data.project.name)
      [] k = 2 -> normalize_text(data.company.name)
      [] k = 3 -> format_date(data.project.startDate)
      [] k = 4 -> format_date(data.project.endDate)
      [] k = 5 -> normalize_text(data.project.durationMonths)
      [] k = 6 -> format_euro(data.company.computed.personnelCost)
      [] k = 7 -> format_euro(data.company.computed.projectSum)
      [] k = 8 -> format_euro(data.company.computed.fundingSum)
      [] k = 9 -> format_percent(data.company.funding.ratePct, WithSymbol(low))
      [] k = 10 -> format_percent(data.company.funding.surchargePct, WithSymbol(low))
      [] k = 11 -> format_euro(data.company.funding.maxProjectSum)
      [] k = 12 -> format_percent(data.company.computed.realSurchargePct, WithSymbol(low))
      [] k = 13 -> format_euro(data.company.computed.verschenkt)

\* the first category in priority order whose test matches, 0 for none
FirstCategory(low) ==
    IF \E k \in 1..Len(CategorySources) : CategoryMatches(k, low)
    THEN CHOOSE k \in 1..Len(CategorySources) :
             /\ CategoryMatches(k, low)
             /\ \A j \in 1..(k - 1) : ~CategoryMatches(j, low)
    ELSE 0

IsWorkPackageSource(source) ==
    Len(source) >= 13 /\ SubSeq(source, 1, 13) = "workPackages["

\* the claim for one path: fixed the entries of the fixed-category loop, entry
\* the path's entry in the preview, c the first category matching, value its value
FirstWinsAt(fixed, path, entry, c, value) ==
    /\ c = 0 => ~DictHas(fixed, path)
    /\ c # 0 =>
           IF value = "" THEN ~DictHas(fixed, path)
           ELSE /\ DictHas(fixed, path)
                /\ DictGet(fixed, path).source = CategorySources[c]
                /\ DictGet(fixed, path).value = value
    /\ ~IsWorkPackageSource(entry.source) =>
           IF DictHas(fixed, path)
           THEN /\ entry.source = DictGet(fixed, path).source
                /\ entry.value = DictGet(fixed, path).value
           ELSE entry.status = "skipped"

FirstWins(fixed, paths, preview) ==
    \A i \in 1..Len(paths) :
        FirstWinsAt(fixed, paths[i], preview[i], FirstCategory(Lower(paths[i])),
                    IF FirstCategory(Lower(paths[i])) = 0 THEN ""
                    ELSE Strip(CategoryValue(FirstCategory(Lower(paths[i])), payload,
                                             Lower(paths[i]))))

\* C10: the fixed-category entry of a path has the source and the value of
\* the first category, in priority order, whose keyword test matches the
\* lower-cased path, and of no later one; a path that matches no category has
\* no fixed-category entry; and the preview shows that entry unless a work
\* package set the path
FirstCategoryWins ==
    Analyzed =>
        FirstWins(FixedPass(payload, analysis.result.fields, 1, << >>),
                  analysis.result.fields, analysis.result.mappingPreview)

\* a path matching the company-name and the acronym test took the project name
AcronymBeatsCompany ==
    /\ Analyzed
    /\ analysis.result.fields = << "form/Firma/Akronym" >>
    /\ analysis.result.mappingPreview[1].source = "project.name"
    /\ analysis.result.mappingPreview[1].value = "XYZ"

\* the preview shows, for every path a fixed-category rule matched, what the
\* fixed-category loop alone left for the path
FixedEntriesKept(fixed, paths, preview) ==
    \A i \in 1..Len(paths) :
        FixedRule(payload, paths[i]).source # "" =>
            preview[i] = PreviewEntry(fixed, paths[i])

\* C11: the work-package pass assigns values only to the paths no
\* fixed-category rule matched: a path that a fixed-category rule matched has
\* in the final mapping, as the preview shows it, the value and the source the
\* rule gave it, also when the path contains a key fragment of a work package
WorkPackagesFillRemaining ==
    Analyzed =>
        FixedEntriesKept(FixedPass(payload, analysis.result.fields, 1, << >>),
                         analysis.result.fields, analysis.result.mappingPreview)

\* a path the company-name rule matched and gave the company name shows the
\* number of the first work package
WorkPackageReplacedCompanyName ==
    /\ Analyzed
    /\ analysis.result.fields = << "form/Firma/ap1_nr" >>
    /\ DictGet(FixedPass(payload, analysis.result.fields, 1, << >>),
               "form/Firma/ap1_nr").source = "company.name"
    /\ analysis.result.mappingPreview[1].source = "workPackages[0]"
    /\ analysis.result.mappingPreview[1].value = "1"

\* the XML document of the datasets part of the uploaded file, << >> for none
PacketXml ==
    IF _get_xfa_datasets_stream(pdf_bytes) = 0 THEN << >>
    ELSE Get(pdf_bytes.xfa).items[_get_xfa_datasets_stream(pdf_bytes)].data

\* the wrapper node: the first element named data in document order, 0 for none
WrapperOf(xml) ==
    LET IsData(n) == xml[n].elem /\ local_name(xml[n].tag) = "data"
        found == IF xml = << >> THEN << >> ELSE SelectSeq(Iter(xml, 1), IsData)
    IN  IF found = << >> THEN 0 ELSE found[1]

\* the element children of the wrapper node, the first of them the Data Root
RootsUnder(xml, wrapper) == IF wrapper = 0 THEN << >> ELSE ElemChildren(xml, wrapper)

\* the Data Root exists and has no element children
ChildlessRoot(xml, roots) == roots # << >> /\ ElemChildren(xml, roots[1]) = << >>

\* there is a wrapper node and no Data Root under it
NoRootUnderWrapper(xml, wrapper, roots) == xml # << >> /\ wrapper # 0 /\ roots = << >>

\* with no Data Root the calls of analyze_pdf and of fill_pdf raise, and the
\* request is answered with status 400 and no bytes
OperationFails ==
    /\ analysis.outcome # "none" =>
           /\ analysis.outcome = "raised"
           /\ analysis.error = "ValueError: Kein Daten-Root unter <xfa:data> gefunden."
           /\ response.status = 400
    /\ FillAttempted =>
           /\ fill.outcome = "raised"
           /\ fill.error = "ValueError: Kein Daten-Root unter <xfa:data> gefunden."
           /\ IsNone(fill.output) /\ IsNone(response.content)
           /\ response.status = 400

\* the claim with the path list expected for a Data Root without element
\* children
RootCases(xml, wrapper, roots, expected) ==
    /\ ChildlessRoot(xml, roots) =>
           /\ analysis.outcome # "none" =>
                  /\ Analyzed
                  /\ analysis.result.fields = expected
                  /\ Len(analysis.result.mappingPreview) = Len(expected)
           /\ FillAttempted => Filled \/ MismatchSignal
    /\ NoRootUnderWrapper(xml, wrapper, roots) => OperationFails

\* C12 as stated: a Data Root without element children is indexed as the
\* empty path list and analyze_pdf succeeds with empty fields; with no Data
\* Root under the wrapper node analyze_pdf and fill_pdf fail
ChildlessRootYieldsNoPaths ==
    RootCases(PacketXml, WrapperOf(PacketXml),
              RootsUnder(PacketXml, WrapperOf(PacketXml)), << >>)

\* C12 as amended: a Data Root without element children is itself a leaf, so
\* it is indexed as the list of one path, its own name, and analyze_pdf
\* succeeds with that one field; with no Data Root under the wrapper node
\* analyze_pdf and fill_pdf fail
ChildlessRootIsLeaf ==
    RootCases(PacketXml, WrapperOf(PacketXml),
              RootsUnder(PacketXml, WrapperOf(PacketXml)),
              IF ChildlessRoot(PacketXml, RootsUnder(PacketXml, WrapperOf(PacketXml)))
              THEN << local_name(PacketXml[RootsUnder(PacketXml, WrapperOf(PacketXml))[1]].tag) >>
              ELSE << >>)

\* a Data Root whose only child is a comment was analyzed
ChildlessRootAnalyzed ==
    /\ Analyzed
    /\ ChildlessRoot(PacketXml, RootsUnder(PacketXml, WrapperOf(PacketXml)))
    /\ Children(PacketXml, RootsUnder(PacketXml, WrapperOf(PacketXml))[1]) # << >>
    /\ analysis.result.fields = << "form" >>

\* the analysis of a form shows an entry of the source
SourceShown(got, source) ==
    /\ got.outcome = "ok"
    /\ \E i \in 1..Len(got.result.mappingPreview) :
           got.result.mappingPreview[i].source = source

\* some form and payload of the inputs is analyzed to an entry of the k-th
\* category's source
Attained(k) ==
    \E in \in Inputs :
        in[2].json_ok /\ SourceShown(analyze_pdf(in[1], in[2]), CategorySources[k])

\* C13: every one of the thirteen fixed categories is attainable: for each
\* there is a leaf path to which the mapper assigns the category's source,
\* company.computed.realSurchargePct and company.funding.maxProjectSum included
AllCategoriesAttainable == \A k \in 1..Len(CategorySources) : Attained(k)

\* a leaf path holding "real" and "zuschlag", the keywords of the
\* real-surcharge rule, took the surcharge rule's source and value
RealSurchargeShadowed ==
    /\ Analyzed
    /\ analysis.result.fields = << "form/realzuschlag" >>
    /\ IsRealSurchargePath(Lower(analysis.result.fields[1]))
    /\ analysis.result.mappingPreview[1].source = "company.funding.surchargePct"
    /\ analysis.result.mappingPreview[1].value = "12,3"

\* no analysis and no fill shows the real-surcharge source, and every indexed
\* path that passes the real-surcharge test passes the surcharge test ahead of it
RealSurchargeNeverAssigned ==
    Analyzed =>
        /\ ~SourceShown(analysis, "company.computed.realSurchargePct")
        /\ \A i \in 1..Len(analysis.result.fields) :
               IsRealSurchargePath(Lower(analysis.result.fields[i]))
                   => IsSurchargePath(Lower(analysis.result.fields[i]))

\* every category but the real-surcharge one is attained
OtherCategoriesAttainable ==
    \A k \in 1..Len(CategorySources) :
        CategorySources[k] # "company.computed.realSurchargePct" => Attained(k)

\* what the claim says of a fill without confirmation, got what analyze_pdf
\* gives for the same file and payload
AgreeWith(got) ==
    /\ MismatchSignal <=> (got.outcome = "ok" /\ got.result.acronymMismatch = Some(TRUE))
    /\ response.status = 409 =>
           /\ response.pdfAcronym = fill.pdf_acronym
           /\ response.projectName = Some(fill.project_name)

\* C14: a fill without confirmation ends in PermissionError exactly when
\* analyze_pdf reports acronymMismatch true for the same file and payload, and
\* the pdfAcronym and projectName of the 409 response are the strings fill_pdf
\* compared
AnalyzeAndFillAgree ==
    (FillAttempted /\ ~fill.confirm) => AgreeWith(analyze_pdf(pdf_bytes, payload))

\* a fill without confirmation ended in PermissionError, and the handler's
\* call of analyze_pdf for the same file and payload raised ValueError
MismatchSignalWithoutAnalysis ==
    /\ MismatchSignal
    /\ ~fill.confirm
    /\ fill.pdf_acronym = Some("ABC")
    /\ fill.project_name = "XYZ"
    /\ analysis.outcome = "raised"
    /\ analysis.error = "ValueError: could not convert string to float: '12,5'"
    /\ response.status = 500

====
